---- MODULE Spec2Model ----
(***************************************************************************)
(* urkel-rs: the Rust binding (src/src/db.rs, error.rs, proof.rs) over the *)
(* native Urkel tree engine.  The binding is modelled from its source; the *)
(* native engine it calls through urkel_sys is not part of the sources and *)
(* is modelled from the design document (trie, transaction overlay, node   *)
(* store), with BLAKE2b idealised as a collision-free digest.              *)
(***************************************************************************)
EXTENDS Integers, Sequences, FiniteSets, TLC

\* ------------------------------------------------------------------ bounds
KeyBits == 2          \* key width in bits (32 bytes in the program)
NumKeys == 3          \* distinct keys the callers use
MaxTx == 2            \* Transaction handles alive at once
MaxRoots == 2         \* non-empty trees the Node Store may hold
MaxWrites == 3        \* successful insert/remove calls in one run
MaxIter == 1          \* Iters alive at once
MaxPastEnd == 1       \* next calls on an Iter after its last pair

\* --------------------------------------------------------------- constants
MAX_VALUE_SIZE == 1024
HASH_SIZE == 32

\* the key whose bits, most significant first, spell the number n
KeyOf(n) == [i \in 1..KeyBits |-> (n \div (2 ^ (KeyBits - i))) % 2]
Keys == {KeyOf(n) : n \in 0..(NumKeys - 1)}
Values == {<<1>>, <<2, 2>>}
TxIds == 1..MaxTx
IterIds == 1..MaxIter
IoOutcomes == {"ok", "fail"}

\* ------------------------------------------------------------ Rust values
Ok(v) == [ok |-> TRUE, val |-> v]
Err(e) == [ok |-> FALSE, err |-> e]
Some(v) == <<v>>
None == <<>>
Unit == "()"

\* Error (src/src/error.rs)
PathErr == "PathErr"
ValueTooLarge == "ValueTooLarge"
NotFound == "NotFound"
Unknown == "Unknown"
HashMismatch == "HashMismatch"
SameKey == "SameKey"
SamePath == "SamePath"
NegativeDepth == "NegativeDepth"
PathMismatch == "PathMismatch"
TooDeep == "TooDeep"
InvalidProof == "InvalidProof"

\* native error codes (urkel_sys)
URKEL_OK == "URKEL_OK"
URKEL_ENOTFOUND == "URKEL_ENOTFOUND"
URKEL_EITEREND == "URKEL_EITEREND"
URKEL_ECORRUPTION == "URKEL_ECORRUPTION"
URKEL_EBADWRITE == "URKEL_EBADWRITE"
URKEL_EHASHMISMATCH == "URKEL_EHASHMISMATCH"
URKEL_ESAMEKEY == "URKEL_ESAMEKEY"
URKEL_ESAMEPATH == "URKEL_ESAMEPATH"
URKEL_ENEGDEPTH == "URKEL_ENEGDEPTH"
URKEL_EPATHMISMATCH == "URKEL_EPATHMISMATCH"
URKEL_ETOODEEP == "URKEL_ETOODEEP"
URKEL_EINVAL == "URKEL_EINVAL"

\* ------------------------------------------------------------------ Hasher
\* A root is 32 bytes; a digest is kept as its preimage (no collisions).
Bytes32(b) == [bytes |-> [i \in 1..HASH_SIZE |-> b]]
\* faulty variant: the empty tree's root is not the all-zero value
ONES_HASH == Bytes32(1)

ZERO_HASH == Bytes32(0)
BOGUS_ROOT == Bytes32(3)
blake2b_256(data) == [digest |-> data]

\* -------------------------------------------------------------------- Node
NIL == [type |-> "null"]
Leaf(k, v) == [type |-> "leaf", key |-> k, value |-> v]
Internal(l, r) == [type |-> "internal", left |-> l, right |-> r]

\* a leaf commits to its key and to the digest of its value, an internal
\* node to its two children, in order
urkel_hash_leaf(key, vhash) == blake2b_256([leaf |-> key, vhash |-> vhash])
urkel_hash_internal(left, right) == blake2b_256([lhash |-> left, rhash |-> right])

RECURSIVE urkel_node_hash(_)
urkel_node_hash(node) ==
  CASE node.type = "null" -> ZERO_HASH
    [] node.type = "leaf" -> urkel_hash_leaf(node.key, blake2b_256(node.value))
    [] node.type = "internal" ->
         urkel_hash_internal(urkel_node_hash(node.left), urkel_node_hash(node.right))

\* -------------------------------------------------------------------- Trie
\* bit `depth` of the key, most significant first
hasBit(key, depth) == key[depth + 1]

RECURSIVE urkel_tree_get(_, _, _)
urkel_tree_get(node, key, depth) ==
  CASE node.type = "null" -> None
    [] node.type = "leaf" -> IF node.key = key THEN Some(node.value) ELSE None
    [] node.type = "internal" ->
         IF hasBit(key, depth) = 0
         THEN urkel_tree_get(node.left, key, depth + 1)
         ELSE urkel_tree_get(node.right, key, depth + 1)

\* two leaves with different keys meeting at `depth`: internal nodes down to
\* the first bit where the keys differ
RECURSIVE urkel_tree_grow(_, _, _)
urkel_tree_grow(old, new, depth) ==
  IF hasBit(old.key, depth) = hasBit(new.key, depth)
  THEN IF hasBit(new.key, depth) = 0
       THEN Internal(urkel_tree_grow(old, new, depth + 1), NIL)
       ELSE Internal(NIL, urkel_tree_grow(old, new, depth + 1))
  ELSE IF hasBit(new.key, depth) = 0
       THEN Internal(new, old)
       ELSE Internal(old, new)

RECURSIVE urkel_tree_insert(_, _, _, _)
urkel_tree_insert(node, key, value, depth) ==
  CASE node.type = "null" -> Leaf(key, value)
    [] node.type = "leaf" ->
         IF node.key = key
         THEN Leaf(key, value)
         ELSE urkel_tree_grow(node, Leaf(key, value), depth)
    [] node.type = "internal" ->
         IF hasBit(key, depth) = 0
         THEN Internal(urkel_tree_insert(node.left, key, value, depth + 1), node.right)
         ELSE Internal(node.left, urkel_tree_insert(node.right, key, value, depth + 1))

\* an internal node after a removal below it: a lone leaf moves up
urkel_tree_shrink(l, r) ==
  IF l.type = "null" /\ r.type = "null" THEN NIL
  ELSE IF l.type = "leaf" /\ r.type = "null" THEN l
  ELSE IF l.type = "null" /\ r.type = "leaf" THEN r
  ELSE Internal(l, r)

RECURSIVE urkel_tree_remove(_, _, _)
urkel_tree_remove(node, key, depth) ==
  CASE node.type = "null" -> node
    [] node.type = "leaf" -> IF node.key = key THEN NIL ELSE node
    [] node.type = "internal" ->
         IF urkel_tree_get(node, key, depth) = None
         THEN node
         ELSE IF hasBit(key, depth) = 0
              THEN urkel_tree_shrink(urkel_tree_remove(node.left, key, depth + 1), node.right)
              ELSE urkel_tree_shrink(node.left, urkel_tree_remove(node.right, key, depth + 1))

\* -------------------------------------------------------------- Node Store
NULL == [type |-> "null_ptr"]

\* urkel_t after urkel_open of a fresh prefix: `hash` is the published root,
\* `roots` the root hashes with a metadata record, `nodes` every tree written
\* to the node log, by the hash of its top node, `meta` the root the last
\* metadata record on disk names
urkel_open ==
  [type |-> "urkel", hash |-> ZERO_HASH, roots |-> {}, nodes |-> <<>>,
   meta |-> ZERO_HASH]

\* urkel_close leaves the files under the prefix; urkel_open of a prefix that
\* holds files takes the published root from the last metadata record
urkel_close(tree) == [nodes |-> tree.nodes, roots |-> tree.roots, meta |-> tree.meta]

urkel_open_files(files) ==
  [type |-> "urkel", hash |-> files.meta, roots |-> files.roots,
   nodes |-> files.nodes, meta |-> files.meta]

urkel_store_get_root(tree, hash) ==
  IF hash = ZERO_HASH THEN NIL
  ELSE IF hash \in tree.roots /\ hash \in DOMAIN tree.nodes
       THEN tree.nodes[hash]
       ELSE NULL

urkel_store_write(nodes, root) ==
  IF root = NIL THEN nodes
  ELSE LET hash == urkel_node_hash(root)
       IN [h \in DOMAIN nodes \cup {hash} |-> IF h = hash THEN root ELSE nodes[h]]

\* ------------------------------------------------------ Transaction engine
\* A native call reports failure through its return value and the thread's
\* errno slot.  Every failing call writes the slot before the binding reads
\* it, so the slot travels in the call's result (`errno`).
NoOp == [op |-> "none"]
SetOp(v) == [op |-> "set", value |-> v]
RemoveOp == [op |-> "remove"]
EmptyOverlay == [k \in Keys |-> NoOp]

\* the overlay applied over a base tree, one pending operation after another
RECURSIVE urkel_tx_apply(_, _, _)
urkel_tx_apply(node, overlay, keys) ==
  IF keys = {} THEN node
  ELSE LET k == CHOOSE x \in keys : TRUE
           next == CASE overlay[k].op = "set" ->
                          urkel_tree_insert(node, k, overlay[k].value, 0)
                     [] overlay[k].op = "remove" -> urkel_tree_remove(node, k, 0)
                     [] OTHER -> node
       IN urkel_tx_apply(next, overlay, keys \ {k})

urkel_tx_tree(tree, tx) ==
  urkel_tx_apply(urkel_store_get_root(tree, tx.base), tx.overlay, Keys)

\* overlay first, then the base root
urkel_tx_lookup(tree, tx, key) ==
  CASE tx.overlay[key].op = "set" -> Some(tx.overlay[key].value)
    [] tx.overlay[key].op = "remove" -> None
    [] OTHER -> urkel_tree_get(urkel_store_get_root(tree, tx.base), key, 0)

urkel_root(tree) == tree.hash

urkel_tx_create(tree, hash) ==
  LET h == IF hash = NULL THEN tree.hash ELSE hash
  IN IF urkel_store_get_root(tree, h) = NULL
     THEN [tx |-> NULL, errno |-> URKEL_ENOTFOUND]
     ELSE [tx |-> [type |-> "tx", base |-> h, overlay |-> EmptyOverlay],
           errno |-> URKEL_OK]

urkel_tx_root(tree, tx) == urkel_node_hash(urkel_tx_tree(tree, tx))

urkel_tx_insert(tx, key, value, size) ==
  [ret |-> 1,
   tx |-> [tx EXCEPT !.overlay[key] = SetOp(SubSeq(value, 1, size))],
   errno |-> URKEL_OK]

urkel_tx_remove(tree, tx, key) ==
  IF urkel_tx_lookup(tree, tx, key) = None
  THEN [ret |-> 0, tx |-> tx, errno |-> URKEL_ENOTFOUND]
  ELSE [ret |-> 1, tx |-> [tx EXCEPT !.overlay[key] = RemoveOp], errno |-> URKEL_OK]

urkel_tx_has(tree, tx, key, io) ==
  IF io = "fail" THEN [ret |-> 0, errno |-> URKEL_ECORRUPTION]
  ELSE IF urkel_tx_lookup(tree, tx, key) = None
       THEN [ret |-> 0, errno |-> URKEL_ENOTFOUND]
       ELSE [ret |-> 1, errno |-> URKEL_OK]

urkel_tx_get(tree, tx, key, io) ==
  LET found == urkel_tx_lookup(tree, tx, key)
  IN IF io = "fail"
     THEN [ret |-> 0, value |-> <<>>, size |-> 0, errno |-> URKEL_ECORRUPTION]
     ELSE IF found = None
          THEN [ret |-> 0, value |-> <<>>, size |-> 0, errno |-> URKEL_ENOTFOUND]
          ELSE [ret |-> 1, value |-> found[1], size |-> Len(found[1]),
                errno |-> URKEL_OK]

urkel_tx_inject(tree, tx, hash) ==
  IF urkel_store_get_root(tree, hash) = NULL
  THEN [ret |-> 0, tx |-> tx, errno |-> URKEL_ENOTFOUND]
  ELSE [ret |-> 1, tx |-> [tx EXCEPT !.base = hash, !.overlay = EmptyOverlay],
        errno |-> URKEL_OK]

\* the new tree is appended to the node log, then the metadata record that
\* publishes its root is written; a storage failure (io = "fail") strikes
\* between the two and leaves the appended nodes unreferenced
urkel_tx_commit(tree, tx, io) ==
  LET root == urkel_tx_tree(tree, tx)
      hash == urkel_node_hash(root)
      written == urkel_store_write(tree.nodes, root)
  IN IF io = "fail"
     THEN [ret |-> 0, tx |-> tx, tree |-> [tree EXCEPT !.nodes = written],
           errno |-> URKEL_EBADWRITE]
     ELSE [ret |-> 1,
           tx |-> [tx EXCEPT !.base = hash, !.overlay = EmptyOverlay],
           tree |-> [tree EXCEPT !.nodes = written,
                                 !.roots = IF root = NIL THEN @ ELSE @ \cup {hash},
                                 !.meta = hash,
                                 !.hash = hash],
           errno |-> URKEL_OK]

\* The steps of urkel_tx_commit as threads interleave them.  A commit takes
\* the store's commit lock, reads the published metadata, appends its tree
\* to the node log, then writes the metadata that publishes its root and
\* releases the lock.  A call in flight keeps its position and what it read.
Idle == [pc |-> "idle"]

\* faulty variant: no lock is taken
urkel_commit_lock_none(calls) == TRUE

urkel_commit_lock_free(calls) == \A t \in DOMAIN calls : calls[t] = Idle

urkel_commit_begin(tree) ==
  [pc |-> "locked", seen |-> [hash |-> tree.hash, roots |-> tree.roots]]

urkel_commit_write(tree, tx, call) ==
  LET root == urkel_tx_tree(tree, tx)
  IN [tree |-> [tree EXCEPT !.nodes = urkel_store_write(@, root)],
      call |-> [pc |-> "written", seen |-> call.seen,
                root |-> root, hash |-> urkel_node_hash(root)]]

urkel_commit_publish(tree, tx, call) ==
  [tree |-> [tree EXCEPT !.roots = IF call.root = NIL THEN call.seen.roots
                                   ELSE call.seen.roots \cup {call.hash},
                         !.meta = call.hash,
                         !.hash = call.hash],
   tx |-> [tx EXCEPT !.base = call.hash, !.overlay = EmptyOverlay],
   call |-> Idle]

\* ------------------------------------------------------------- Proof Engine
\* A proof: where the walk along the key's bits ended (`type`), how many
\* internal nodes it passed (`depth`), the hash of the branch not taken at
\* each of them, top first (`nodes`), and the terminal node's data.
URKEL_TYPE_DEADEND == 0                \* the walk ended at an empty node
URKEL_TYPE_COLLISION == 2            \* ... at a leaf holding another key
URKEL_TYPE_EXISTS == 3                 \* ... at the key's own leaf

RECURSIVE urkel_proof_walk(_, _, _, _)
urkel_proof_walk(node, key, depth, nodes) ==
  CASE node.type = "null" ->
         [type |-> URKEL_TYPE_DEADEND, depth |-> depth, nodes |-> nodes]
    [] node.type = "leaf" ->
         IF node.key = key
         THEN [type |-> URKEL_TYPE_EXISTS, depth |-> depth, nodes |-> nodes,
               value |-> node.value]
         ELSE [type |-> URKEL_TYPE_COLLISION, depth |-> depth, nodes |-> nodes,
               key |-> node.key, hash |-> blake2b_256(node.value)]
    [] node.type = "internal" ->
         IF hasBit(key, depth) = 0
         THEN urkel_proof_walk(node.left, key, depth + 1,
                               Append(nodes, urkel_node_hash(node.right)))
         ELSE urkel_proof_walk(node.right, key, depth + 1,
                               Append(nodes, urkel_node_hash(node.left)))

\* the proof as the buffer handed to the caller: type, depth and number of
\* sibling hashes, the hashes, then the terminal data (a value goes with its
\* length in front)
urkel_proof_write(proof) ==
  <<proof.type, proof.depth, Len(proof.nodes)>> \o proof.nodes \o
    (CASE proof.type = URKEL_TYPE_DEADEND -> <<>>
       [] proof.type = URKEL_TYPE_COLLISION -> <<proof.key, proof.hash>>
       [] proof.type = URKEL_TYPE_EXISTS -> <<Len(proof.value)>> \o proof.value)

\* the buffer's first `len` cells decoded; `ok` is FALSE for a buffer that
\* is no proof
urkel_proof_read(raw, len) ==
  IF len < 3 THEN [ok |-> FALSE]
  ELSE IF raw[1] \notin {URKEL_TYPE_DEADEND, URKEL_TYPE_COLLISION, URKEL_TYPE_EXISTS}
  THEN [ok |-> FALSE]
  ELSE IF raw[2] > KeyBits \/ raw[3] > KeyBits \/ len < 3 + raw[3]
  THEN [ok |-> FALSE]
  ELSE LET count == raw[3]
           nodes == SubSeq(raw, 4, 3 + count)
           rest == SubSeq(raw, 4 + count, len)
       IN CASE raw[1] = URKEL_TYPE_DEADEND ->
                 IF Len(rest) = 0
                 THEN [ok |-> TRUE,
                       proof |-> [type |-> URKEL_TYPE_DEADEND, depth |-> raw[2],
                                  nodes |-> nodes]]
                 ELSE [ok |-> FALSE]
            [] raw[1] = URKEL_TYPE_COLLISION ->
                 IF Len(rest) = 2
                 THEN [ok |-> TRUE,
                       proof |-> [type |-> URKEL_TYPE_COLLISION, depth |-> raw[2],
                                  nodes |-> nodes, key |-> rest[1],
                                  hash |-> rest[2]]]
                 ELSE [ok |-> FALSE]
            [] raw[1] = URKEL_TYPE_EXISTS ->
                 IF Len(rest) >= 1 /\ rest[1] = Len(rest) - 1
                      /\ rest[1] <= MAX_VALUE_SIZE
                 THEN [ok |-> TRUE,
                       proof |-> [type |-> URKEL_TYPE_EXISTS, depth |-> raw[2],
                                  nodes |-> nodes, value |-> Tail(rest)]]
                 ELSE [ok |-> FALSE]

\* prove(key, root): the walk from a root the store holds
urkel_prove(tree, key, root) ==
  LET node == urkel_store_get_root(tree, root)
  IN IF node = NULL
     THEN [ret |-> 0, raw |-> <<>>, len |-> 0, errno |-> URKEL_ENOTFOUND]
     ELSE LET raw == urkel_proof_write(urkel_proof_walk(node, key, 0, <<>>))
          IN [ret |-> 1, raw |-> raw, len |-> Len(raw), errno |-> URKEL_OK]

\* the walk from the root the Transaction shows, pending operations included
urkel_tx_prove(tree, tx, key) ==
  LET raw == urkel_proof_write(urkel_proof_walk(urkel_tx_tree(tree, tx), key, 0, <<>>))
  IN [ret |-> 1, raw |-> raw, len |-> Len(raw), errno |-> URKEL_OK]

\* ----------------------------------------------------------------- Verifier
\* the hash of the terminal position as the proof states it
urkel_proof_leaf(proof, key) ==
  CASE proof.type = URKEL_TYPE_DEADEND -> ZERO_HASH
    [] proof.type = URKEL_TYPE_COLLISION -> urkel_hash_leaf(proof.key, proof.hash)
    [] proof.type = URKEL_TYPE_EXISTS -> urkel_hash_leaf(key, blake2b_256(proof.value))

\* the sibling hashes folded in from the terminal position up, the queried
\* key's bit at each level deciding the side
RECURSIVE urkel_proof_replay(_, _, _, _, _)
urkel_proof_replay(nodes, i, depth, key, next) ==
  IF i = 0 THEN [errno |-> URKEL_OK, depth |-> depth, hash |-> next]
  ELSE IF depth < 1 THEN [errno |-> URKEL_ENEGDEPTH]
  ELSE urkel_proof_replay(nodes, i - 1, depth - 1, key,
         IF hasBit(key, depth - 1) = 1
         THEN urkel_hash_internal(nodes[i], next)
         ELSE urkel_hash_internal(next, nodes[i]))

\* verify: `ret` 1 and the outcome in `exists`, `value`, `size`, or `ret` 0
\* and the reason in errno; needs nothing of the store
urkel_verify(raw, len, key, root) ==
  LET fail(e) == [ret |-> 0, exists |-> 0, value |-> <<>>, size |-> 0, errno |-> e]
      rd == urkel_proof_read(raw, len)
  IN IF ~rd.ok THEN fail(URKEL_EINVAL)
     ELSE LET proof == rd.proof
          IN IF proof.type = URKEL_TYPE_COLLISION /\ proof.key = key
             THEN fail(URKEL_ESAMEKEY)
             ELSE LET up == urkel_proof_replay(proof.nodes, Len(proof.nodes),
                                               proof.depth, key,
                                               urkel_proof_leaf(proof, key))
                  IN IF up.errno # URKEL_OK THEN fail(up.errno)
                     ELSE IF up.depth # 0 THEN fail(URKEL_ETOODEEP)
                     ELSE IF up.hash # root THEN fail(URKEL_EHASHMISMATCH)
                     ELSE IF proof.type = URKEL_TYPE_EXISTS
                     THEN [ret |-> 1, exists |-> 1, value |-> proof.value,
                           size |-> Len(proof.value), errno |-> URKEL_OK]
                     ELSE [ret |-> 1, exists |-> 0, value |-> <<>>, size |-> 0,
                           errno |-> URKEL_OK]

\* ----------------------------------------------------------------- Iterator
\* the pairs below a node, left before right at every internal node
RECURSIVE urkel_iter_walk(_)
urkel_iter_walk(node) ==
  CASE node.type = "null" -> <<>>
    [] node.type = "leaf" -> <<[key |-> node.key, value |-> node.value]>>
    [] node.type = "internal" ->
         urkel_iter_walk(node.left) \o urkel_iter_walk(node.right)

\* an iterator holds the root node it was created on and how far it is
urkel_iterate(tree, hash) ==
  LET node == urkel_store_get_root(tree, hash)
  IN IF node = NULL
     THEN [iter |-> NULL, errno |-> URKEL_ENOTFOUND]
     ELSE [iter |-> [type |-> "iter", root |-> node, pos |-> 0],
           errno |-> URKEL_OK]

\* on a Transaction: the root it shows, pending operations included
urkel_iter_create(tree, tx) ==
  [iter |-> [type |-> "iter", root |-> urkel_tx_tree(tree, tx), pos |-> 0],
   errno |-> URKEL_OK]

urkel_iter_next(iter) ==
  LET items == urkel_iter_walk(iter.root)
  IN IF iter.pos < Len(items)
     THEN [ret |-> 1, key |-> items[iter.pos + 1].key,
           value |-> items[iter.pos + 1].value,
           size |-> Len(items[iter.pos + 1].value),
           iter |-> [iter EXCEPT !.pos = @ + 1], errno |-> URKEL_OK]
     ELSE [ret |-> 0, key |-> <<>>, value |-> <<>>, size |-> 0, iter |-> iter,
           errno |-> URKEL_EITEREND]

urkel_iter_destroy(iter) == NULL

\* ---------------------------------------------------------------- error.rs
\* Errno::fetch after the native call `r`
Errno_fetch(r) == r.errno

Errno_is_iter_end(errno) == errno = URKEL_EITEREND

Errno_is_not_found(errno) == errno = URKEL_ENOTFOUND

\* faulty variant: every native code maps to Unknown
Errno_into_error_unknown(errno) == Unknown

Errno_into_error(errno) ==
  IF errno = URKEL_ENOTFOUND THEN NotFound ELSE Unknown

\* ------------------------------------------------------------------- db.rs
\* Every method yields the Result the caller sees (`res`) and the native
\* objects as the call left them.
\* faulty variant: the store is opened under another, fresh prefix
Database_open_elsewhere(files) == [res |-> Ok(Unit), tree |-> urkel_open]

\* Database::open of the prefix that holds `files`
Database_open(files) ==
  LET tree == urkel_open_files(files)
  IN IF tree = NULL
     THEN [res |-> Err(Unknown), tree |-> NULL]
     ELSE [res |-> Ok(Unit), tree |-> tree]

\* impl Drop for Database: urkel_close
Database_drop(tree) == urkel_close(tree)

\* faulty variant: the Transaction is created at the empty root instead of
\* the published one
Database_new_tx_on_empty(tree) ==
  LET r == urkel_tx_create(tree, ZERO_HASH)
  IN IF r.tx = NULL
     THEN [res |-> Err(Errno_into_error(Errno_fetch(r))), tx |-> NULL]
     ELSE [res |-> Ok(Unit), tx |-> r.tx]

Database_new_tx(tree) ==
  LET r == urkel_tx_create(tree, NULL)
  IN IF r.tx = NULL
     THEN [res |-> Err(Errno_into_error(Errno_fetch(r))), tx |-> NULL]
     ELSE [res |-> Ok(Unit), tx |-> r.tx]

\* faulty variant: the root argument is not passed on
Database_new_tx_at_ignoring_root(tree, root) ==
  LET r == urkel_tx_create(tree, NULL)
  IN IF r.tx = NULL
     THEN [res |-> Err(Errno_into_error(Errno_fetch(r))), tx |-> NULL]
     ELSE [res |-> Ok(Unit), tx |-> r.tx]

Database_new_tx_at(tree, root) ==
  LET r == urkel_tx_create(tree, root)
  IN IF r.tx = NULL
     THEN [res |-> Err(Errno_into_error(Errno_fetch(r))), tx |-> NULL]
     ELSE [res |-> Ok(Unit), tx |-> r.tx]

Database_root(tree) == urkel_root(tree)

\* faulty variant: the store's root is returned for the Transaction's
Transaction_root_of_store(tree, tx) == urkel_root(tree)

Transaction_root(tree, tx) == urkel_tx_root(tree, tx)

\* faulty variant: the length passed to the native call is 0
Transaction_insert_without_len(tx, key, value) ==
  IF Len(value) > MAX_VALUE_SIZE
  THEN [res |-> Err(ValueTooLarge), tx |-> tx]
  ELSE LET r == urkel_tx_insert(tx, key, value, 0)
       IN IF r.ret = 0
          THEN [res |-> Err(Errno_into_error(Errno_fetch(r))), tx |-> r.tx]
          ELSE [res |-> Ok(Unit), tx |-> r.tx]

\* faulty variant: the size guard is left out
Transaction_insert_unguarded(tx, key, value) ==
  LET r == urkel_tx_insert(tx, key, value, Len(value))
  IN IF r.ret = 0
     THEN [res |-> Err(Errno_into_error(Errno_fetch(r))), tx |-> r.tx]
     ELSE [res |-> Ok(Unit), tx |-> r.tx]

Transaction_insert(tx, key, value) ==
  IF Len(value) > MAX_VALUE_SIZE
  THEN [res |-> Err(ValueTooLarge), tx |-> tx]
  ELSE LET r == urkel_tx_insert(tx, key, value, Len(value))
       IN IF r.ret = 0
          THEN [res |-> Err(Errno_into_error(Errno_fetch(r))), tx |-> r.tx]
          ELSE [res |-> Ok(Unit), tx |-> r.tx]

\* faulty variant: the native return value is not looked at
Transaction_remove_unchecked(tree, tx, key) ==
  LET r == urkel_tx_remove(tree, tx, key)
  IN [res |-> Ok(Unit), tx |-> r.tx]

Transaction_remove(tree, tx, key) ==
  LET r == urkel_tx_remove(tree, tx, key)
  IN IF r.ret = 0
     THEN [res |-> Err(Errno_into_error(Errno_fetch(r))), tx |-> r.tx]
     ELSE [res |-> Ok(Unit), tx |-> r.tx]

\* faulty variant: the test of the native return value is inverted
Transaction_has_inverted(tree, tx, key, io) ==
  LET r == urkel_tx_has(tree, tx, key, io)
  IN IF r.ret # 1
     THEN Ok(TRUE)
     ELSE IF Errno_is_not_found(Errno_fetch(r))
          THEN Ok(FALSE)
          ELSE Err(Errno_into_error(Errno_fetch(r)))

Transaction_has(tree, tx, key, io) ==
  LET r == urkel_tx_has(tree, tx, key, io)
  IN IF r.ret = 1
     THEN Ok(TRUE)
     ELSE IF Errno_is_not_found(Errno_fetch(r))
          THEN Ok(FALSE)
          ELSE Err(Errno_into_error(Errno_fetch(r)))

\* faulty variant: the published root is injected instead of the argument
Transaction_revert_to_published(tree, tx, root) ==
  LET r == urkel_tx_inject(tree, tx, urkel_root(tree))
  IN IF r.ret = 0
     THEN [res |-> Err(Errno_into_error(Errno_fetch(r))), tx |-> r.tx]
     ELSE [res |-> Ok(Unit), tx |-> r.tx]

Transaction_revert(tree, tx, root) ==
  LET r == urkel_tx_inject(tree, tx, root)
  IN IF r.ret = 0
     THEN [res |-> Err(Errno_into_error(Errno_fetch(r))), tx |-> r.tx]
     ELSE [res |-> Ok(Unit), tx |-> r.tx]

\* faulty variant: the native return value is not looked at
Transaction_commit_unchecked(tree, tx, io) ==
  LET r == urkel_tx_commit(tree, tx, io)
  IN [res |-> Ok(Unit), tx |-> r.tx, tree |-> r.tree]

\* faulty variant: a successful commit destroys the native Transaction
Transaction_commit_consuming(tree, tx, io) ==
  LET r == urkel_tx_commit(tree, tx, io)
  IN IF r.ret = 0
     THEN [res |-> Err(Errno_into_error(Errno_fetch(r))), tx |-> r.tx, tree |-> r.tree]
     ELSE [res |-> Ok(Unit), tx |-> NULL, tree |-> r.tree]

Transaction_commit(tree, tx, io) ==
  LET r == urkel_tx_commit(tree, tx, io)
  IN IF r.ret = 0
     THEN [res |-> Err(Errno_into_error(Errno_fetch(r))), tx |-> r.tx, tree |-> r.tree]
     ELSE [res |-> Ok(Unit), tx |-> r.tx, tree |-> r.tree]

\* faulty variant: set_len is left out, the buffer keeps length 0
Transaction_get_without_set_len(tree, tx, key, io) ==
  LET r == urkel_tx_get(tree, tx, key, io)
  IN IF r.ret = 1
     THEN Ok(Some(<<>>))
     ELSE IF Errno_is_not_found(Errno_fetch(r))
          THEN Ok(None)
          ELSE Err(Errno_into_error(Errno_fetch(r)))

\* the buffer has capacity MAX_VALUE_SIZE; set_len(size) cuts it to the value
\* faulty variant: every lookup that returns no value counts as absent
Transaction_get_absent_on_failure(tree, tx, key, io) ==
  LET r == urkel_tx_get(tree, tx, key, io)
  IN IF r.ret = 1
     THEN Ok(Some(SubSeq(r.value, 1, r.size)))
     ELSE Ok(None)

Transaction_get(tree, tx, key, io) ==
  LET r == urkel_tx_get(tree, tx, key, io)
  IN IF r.ret = 1
     THEN Ok(Some(SubSeq(r.value, 1, r.size)))
     ELSE IF Errno_is_not_found(Errno_fetch(r))
          THEN Ok(None)
          ELSE Err(Errno_into_error(Errno_fetch(r)))

\* ----------------------------------------------------------------- proof.rs
Proof_from_ptr(proof_raw, proof_len) == [raw |-> SubSeq(proof_raw, 1, proof_len)]

Proof_new_unchecked(raw) == [raw |-> raw]

\* faulty variant: no native code is recognised
VerifyError_from_errno_unknown(errno) == Unknown

VerifyError_from_errno(errno) ==
  CASE errno = URKEL_EHASHMISMATCH -> HashMismatch
    [] errno = URKEL_ESAMEKEY -> SameKey
    [] errno = URKEL_ESAMEPATH -> SamePath
    [] errno = URKEL_ENEGDEPTH -> NegativeDepth
    [] errno = URKEL_EPATHMISMATCH -> PathMismatch
    [] errno = URKEL_ETOODEEP -> TooDeep
    [] errno = URKEL_EINVAL -> InvalidProof
    [] OTHER -> Unknown

\* faulty variant: the return value of the native call is not looked at
Proof_verify_unchecked(proof, key, root) ==
  LET r == urkel_verify(proof.raw, Len(proof.raw), key, root)
  IN Ok(IF r.exists = 1 THEN Some(SubSeq(r.value, 1, r.size)) ELSE None)

\* faulty variant: the value keeps the length the empty Vec had
Proof_verify_without_set_len(proof, key, root) ==
  LET r == urkel_verify(proof.raw, Len(proof.raw), key, root)
  IN IF r.ret = 0 THEN Err(VerifyError_from_errno(Errno_fetch(r)))
     ELSE Ok(IF r.exists = 1 THEN Some(<<>>) ELSE None)

\* faulty variant: the exists flag is not looked at
Proof_verify_ignoring_exists(proof, key, root) ==
  LET r == urkel_verify(proof.raw, Len(proof.raw), key, root)
  IN IF r.ret = 0 THEN Err(VerifyError_from_errno(Errno_fetch(r)))
     ELSE Ok(Some(SubSeq(r.value, 1, r.size)))

Proof_verify(proof, key, root) ==
  LET r == urkel_verify(proof.raw, Len(proof.raw), key, root)
  IN IF r.ret = 0 THEN Err(VerifyError_from_errno(Errno_fetch(r)))
     ELSE Ok(IF r.exists = 1 THEN Some(SubSeq(r.value, 1, r.size)) ELSE None)

\* ---------------------------------------------------------- db.rs, proofs
Database_prove(tree, key, root) ==
  LET r == urkel_prove(tree, key, root)
  IN IF r.ret = 0 THEN Err(Errno_into_error(Errno_fetch(r)))
     ELSE Ok(Proof_from_ptr(r.raw, r.len))

Transaction_prove(tree, tx, key) ==
  LET r == urkel_tx_prove(tree, tx, key)
  IN IF r.ret = 0 THEN Err(Errno_into_error(Errno_fetch(r)))
     ELSE Ok(Proof_from_ptr(r.raw, r.len))

\* ------------------------------------------------------------ db.rs, Iter
\* faulty variant: the root asked for is looked up, the iterator is opened
\* on the published root
Database_iter_of_published(tree, at) ==
  LET r == IF urkel_iterate(tree, at).iter = NULL
           THEN urkel_iterate(tree, at)
           ELSE urkel_iterate(tree, urkel_root(tree))
  IN IF r.iter = NULL
     THEN [res |-> Err(Errno_into_error(Errno_fetch(r))), iter |-> NULL]
     ELSE [res |-> Ok(Unit), iter |-> r.iter]

Database_iter(tree, at) ==
  LET r == urkel_iterate(tree, at)
  IN IF r.iter = NULL
     THEN [res |-> Err(Errno_into_error(Errno_fetch(r))), iter |-> NULL]
     ELSE [res |-> Ok(Unit), iter |-> r.iter]

Transaction_iter(tree, tx) ==
  LET r == urkel_iter_create(tree, tx)
  IN IF r.iter = NULL
     THEN [res |-> Err(Errno_into_error(Errno_fetch(r))), iter |-> NULL]
     ELSE [res |-> Ok(Unit), iter |-> r.iter]

\* faulty variant: the end of the iteration is not told from a failure
Iter_next_without_end(iter) ==
  LET r == urkel_iter_next(iter)
  IN IF r.ret = 1
     THEN [res |-> Ok(Some(<<r.key, SubSeq(r.value, 1, r.size)>>)), iter |-> r.iter]
     ELSE [res |-> Err(Errno_into_error(Errno_fetch(r))), iter |-> r.iter]

Iter_next(iter) ==
  LET r == urkel_iter_next(iter)
  IN IF r.ret = 1
     THEN [res |-> Ok(Some(<<r.key, SubSeq(r.value, 1, r.size)>>)), iter |-> r.iter]
     ELSE IF Errno_is_iter_end(Errno_fetch(r))
          THEN [res |-> Ok(None), iter |-> r.iter]
          ELSE [res |-> Err(Errno_into_error(Errno_fetch(r))), iter |-> r.iter]

Iter_drop(iter) == urkel_iter_destroy(iter)

\* ------------------------------------------------------------------- state
VARIABLES
  tree,          \* the Database's native handle (urkel_t)
  txs,           \* the Transactions alive, by handle; NULL for a free handle
  nwrites,       \* successful insert/remove calls so far
  commits,       \* the commit calls in flight inside the engine, by handle
  iters          \* the Iters alive, by handle, each with what it returned

vars == <<tree, txs, nwrites, commits, iters>>

IsTx(tx) == tx.type = "tx"
Alive(t) == IsTx(txs[t])

\* roots a caller may hold: empty, garbage, published, written but never
\* published, or a Transaction's current root
RootInputs ==
  {ZERO_HASH, BOGUS_ROOT} \cup tree.roots
    \cup DOMAIN tree.nodes
    \cup {Transaction_root(tree, txs[t]) : t \in {u \in TxIds : Alive(u)}}

Init ==
  /\ tree = urkel_open
  /\ txs = [t \in TxIds |-> NULL]
  /\ nwrites = 0
  /\ commits = [t \in TxIds |-> Idle]
  /\ iters = [i \in IterIds |-> NULL]

NewTx(t) ==
  /\ ~Alive(t)
  /\ LET r == Database_new_tx(tree)
     IN /\ txs' = [txs EXCEPT ![t] = r.tx]
  /\ UNCHANGED <<tree, nwrites, commits, iters>>

NewTxAt(t, root) ==
  /\ ~Alive(t)
  /\ LET r == Database_new_tx_at(tree, root)
     IN /\ txs' = [txs EXCEPT ![t] = r.tx]
  /\ UNCHANGED <<tree, nwrites, commits, iters>>

TxInsert(t, key, value) ==
  /\ Alive(t)
  /\ nwrites < MaxWrites
  /\ LET r == Transaction_insert(txs[t], key, value)
     IN /\ txs' = [txs EXCEPT ![t] = r.tx]
        /\ nwrites' = IF r.res.ok THEN nwrites + 1 ELSE nwrites
  /\ UNCHANGED <<tree, commits, iters>>

TxRemove(t, key) ==
  /\ Alive(t)
  /\ nwrites < MaxWrites
  /\ LET r == Transaction_remove(tree, txs[t], key)
     IN /\ txs' = [txs EXCEPT ![t] = r.tx]
        /\ nwrites' = IF r.res.ok THEN nwrites + 1 ELSE nwrites
  /\ UNCHANGED <<tree, commits, iters>>

\* has, get, root: the Result goes to the caller, whatever the storage does;
\* nothing of the store or of a Transaction is written
TxHas(t, key) ==
  /\ Alive(t)
  /\ \A io \in IoOutcomes :
       Transaction_has(tree, txs[t], key, io) \in {Ok(TRUE), Ok(FALSE), Err(Unknown)}
  /\ UNCHANGED vars

TxGet(t, key) ==
  /\ Alive(t)
  /\ \A io \in IoOutcomes : Transaction_get(tree, txs[t], key, io).ok \in BOOLEAN
  /\ UNCHANGED vars

\* faulty variant: root() commits what it hashes
TxRoot_publishing(t) ==
  /\ Alive(t)
  /\ LET r == Transaction_commit(tree, txs[t], "ok")
     IN /\ Cardinality(DOMAIN r.tree.nodes) <= MaxRoots
        /\ tree' = r.tree
  /\ UNCHANGED <<txs, nwrites, commits, iters>>

TxRoot(t) ==
  /\ Alive(t)
  /\ Transaction_root(tree, txs[t]) \in RootInputs
  /\ UNCHANGED vars

DbRoot ==
  /\ Database_root(tree) \in RootInputs
  /\ UNCHANGED vars

\* prove and verify: a Proof or a Result goes to the caller; nothing of the
\* store or of a Transaction is written
TxProve(t, key) ==
  /\ Alive(t)
  /\ Transaction_prove(tree, txs[t], key).ok \in BOOLEAN
  /\ UNCHANGED vars

DbProve(key, root) ==
  /\ Database_prove(tree, key, root).ok \in BOOLEAN
  /\ UNCHANGED vars

ProofVerify(key, root) ==
  /\ \A k \in Keys :
       LET p == Database_prove(tree, k, root)
       IN p.ok => Proof_verify(p.val, key, root).ok \in BOOLEAN
  /\ UNCHANGED vars

\* faulty variant: a revert also moves the published root to its target
TxRevert_publishing(t, root) ==
  /\ Alive(t)
  /\ LET r == Transaction_revert(tree, txs[t], root)
     IN /\ txs' = [txs EXCEPT ![t] = r.tx]
        /\ tree' = IF r.res.ok THEN [tree EXCEPT !.hash = root] ELSE tree
  /\ UNCHANGED <<nwrites, commits, iters>>

TxRevert(t, root) ==
  /\ Alive(t)
  /\ LET r == Transaction_revert(tree, txs[t], root)
     IN /\ txs' = [txs EXCEPT ![t] = r.tx]
  /\ UNCHANGED <<tree, nwrites, commits, iters>>

TxCommit(t, io) ==
  /\ Alive(t)
  /\ LET r == Transaction_commit(tree, txs[t], io)
     IN /\ Cardinality(DOMAIN r.tree.nodes) <= MaxRoots
        /\ tree' = r.tree
        /\ txs' = [txs EXCEPT ![t] = r.tx]
  /\ UNCHANGED <<nwrites, commits, iters>>

\* faulty variant: dropping a Transaction flushes its pending writes
TxDrop_flushing(t) ==
  /\ Alive(t)
  /\ LET r == Transaction_commit(tree, txs[t], "ok")
     IN /\ Cardinality(DOMAIN r.tree.nodes) <= MaxRoots
        /\ tree' = r.tree
  /\ txs' = [txs EXCEPT ![t] = NULL]
  /\ UNCHANGED <<nwrites, commits, iters>>

\* impl Drop for Transaction: urkel_tx_destroy
TxDrop(t) ==
  /\ Alive(t)
  /\ txs' = [txs EXCEPT ![t] = NULL]
  /\ UNCHANGED <<tree, nwrites, commits, iters>>

\* the Database is dropped and opened again at the same prefix; its
\* Transactions borrow it, so all of them were dropped before
DbReopen ==
  /\ \A t \in TxIds : ~Alive(t)
  /\ LET r == Database_open(Database_drop(tree))
     IN /\ r.res.ok
        /\ tree' = r.tree
  /\ UNCHANGED <<txs, nwrites, commits, iters>>

\* urkel_tx_commit, step by step, for callers on several threads
CommitBegin(t) ==
  /\ Alive(t)
  /\ commits[t] = Idle
  /\ urkel_commit_lock_free(commits)
  /\ commits' = [commits EXCEPT ![t] = urkel_commit_begin(tree)]
  /\ UNCHANGED <<tree, txs, nwrites, iters>>

CommitWrite(t) ==
  /\ commits[t].pc = "locked"
  /\ LET r == urkel_commit_write(tree, txs[t], commits[t])
     IN /\ Cardinality(DOMAIN r.tree.nodes) <= MaxRoots
        /\ tree' = r.tree
        /\ commits' = [commits EXCEPT ![t] = r.call]
  /\ UNCHANGED <<txs, nwrites, iters>>

CommitPublish(t) ==
  /\ commits[t].pc = "written"
  /\ LET r == urkel_commit_publish(tree, txs[t], commits[t])
     IN /\ tree' = r.tree
        /\ txs' = [txs EXCEPT ![t] = r.tx]
        /\ commits' = [commits EXCEPT ![t] = r.call]
  /\ UNCHANGED <<nwrites, iters>>

\* a storage failure ends the call before its root is published
CommitFail(t) ==
  /\ commits[t] # Idle
  /\ commits' = [commits EXCEPT ![t] = Idle]
  /\ UNCHANGED <<tree, txs, nwrites, iters>>

\* An Iter in the state: the native handle, the Transaction it borrows from
\* (0 for the Database), the root it was asked for, what get showed for
\* every key when it was created, and every Result next has returned
IterAlive(i) == iters[i].type = "iter"
Borrowed(t) == \E i \in IterIds : IterAlive(i) /\ iters[i].owner = t

TxIter(i, t) ==
  /\ ~IterAlive(i)
  /\ Alive(t)
  /\ LET r == Transaction_iter(tree, txs[t])
     IN iters' = [iters EXCEPT ![i] =
          IF r.res.ok
          THEN [type |-> "iter", handle |-> r.iter, owner |-> t,
                at |-> Transaction_root(tree, txs[t]),
                made |-> [k \in Keys |-> Transaction_get(tree, txs[t], k, "ok")],
                out |-> <<>>]
          ELSE NULL]
  /\ UNCHANGED <<tree, txs, nwrites, commits>>

DbIter(i, root) ==
  /\ ~IterAlive(i)
  /\ LET r == Database_iter(tree, root)
     IN iters' = [iters EXCEPT ![i] =
          IF r.res.ok
          THEN [type |-> "iter", handle |-> r.iter, owner |-> 0, at |-> root,
                made |-> [k \in Keys |->
                           Transaction_get(tree, Database_new_tx_at(tree, root).tx,
                                           k, "ok")],
                out |-> <<>>]
          ELSE NULL]
  /\ UNCHANGED <<tree, txs, nwrites, commits>>

IterNext(i) ==
  /\ IterAlive(i)
  /\ Len(iters[i].out) < iters[i].handle.pos + MaxPastEnd
  /\ LET r == Iter_next(iters[i].handle)
     IN iters' = [iters EXCEPT ![i].handle = r.iter,
                              ![i].out = Append(@, r.res)]
  /\ UNCHANGED <<tree, txs, nwrites, commits>>

IterDrop(i) ==
  /\ IterAlive(i)
  /\ iters' = [iters EXCEPT ![i] = Iter_drop(iters[i].handle)]
  /\ UNCHANGED <<tree, txs, nwrites, commits>>

Next ==
  \/ \E t \in TxIds : NewTx(t)
  \/ \E t \in TxIds : \E root \in RootInputs : NewTxAt(t, root)
  \/ \E t \in TxIds : \E key \in Keys : \E value \in Values : TxInsert(t, key, value)
  \/ \E t \in TxIds : \E key \in Keys : TxRemove(t, key)
  \/ \E t \in TxIds : \E key \in Keys : TxHas(t, key)
  \/ \E t \in TxIds : \E key \in Keys : TxGet(t, key)
  \/ \E t \in TxIds : TxRoot(t)
  \/ DbRoot
  \/ \E t \in TxIds : \E key \in Keys : TxProve(t, key)
  \/ \E key \in Keys : \E root \in RootInputs : DbProve(key, root)
  \/ \E key \in Keys : \E root \in RootInputs : ProofVerify(key, root)
  \/ \E t \in TxIds : \E root \in RootInputs : TxRevert(t, root)
  \/ \E t \in TxIds : \E io \in IoOutcomes : TxCommit(t, io)
  \/ \E t \in TxIds : TxDrop(t)
  \/ DbReopen

Spec == Init /\ [][Next]_vars

\* Callers on several threads: a call on a Transaction waits for the commit
\* in flight on it; commits of different Transactions interleave their steps
NextConcurrent ==
  \/ \E t \in TxIds : commits[t] = Idle /\ NewTx(t)
  \/ \E t \in TxIds : \E root \in RootInputs : commits[t] = Idle /\ NewTxAt(t, root)
  \/ \E t \in TxIds : \E key \in Keys : \E value \in Values :
       commits[t] = Idle /\ TxInsert(t, key, value)
  \/ \E t \in TxIds : \E key \in Keys : commits[t] = Idle /\ TxRemove(t, key)
  \/ \E t \in TxIds : commits[t] = Idle /\ TxDrop(t)
  \/ \E t \in TxIds : CommitBegin(t)
  \/ \E t \in TxIds : CommitWrite(t)
  \/ \E t \in TxIds : CommitPublish(t)
  \/ \E t \in TxIds : CommitFail(t)

SpecConcurrent == Init /\ [][NextConcurrent]_vars

\* Callers that iterate: an Iter borrows the Transaction it was made from,
\* which therefore outlives it; the Database outlives every Iter.  While an
\* Iter is alive its own Transaction is left alone; the other Transactions
\* write and commit
NextIter ==
  \/ \E t \in TxIds : NewTx(t)
  \/ \E t \in TxIds : \E key \in Keys : \E value \in Values :
       ~Borrowed(t) /\ TxInsert(t, key, value)
  \/ \E t \in TxIds : \E key \in Keys : ~Borrowed(t) /\ TxRemove(t, key)
  \/ \E t \in TxIds : \E io \in IoOutcomes : ~Borrowed(t) /\ TxCommit(t, io)
  \/ \E t \in TxIds : ~Borrowed(t) /\ TxDrop(t)
  \/ \E i \in IterIds : \E t \in TxIds : TxIter(i, t)
  \/ \E i \in IterIds : \E root \in RootInputs : DbIter(i, root)
  \/ \E i \in IterIds : IterNext(i)
  \/ \E i \in IterIds : IterDrop(i)

SpecIter == Init /\ [][NextIter]_vars

\* ------------------------------------------------------- what callers see
\* the key/value mapping a Transaction shows through get, and through has
View(tr, tx) == [k \in Keys |-> Transaction_get(tr, tx, k, "ok")]
HasView(tr, tx) == [k \in Keys |-> Transaction_has(tr, tx, k, "ok")]

\* a Transaction newly created on the published root, or at a given root
Fresh(tr) == Database_new_tx(tr).tx
FreshAt(tr, root) == Database_new_tx_at(tr, root).tx

\* roots the store recognises: the empty root and every published root
KnownRoots == {ZERO_HASH} \cup tree.roots

\* a step of some method called on Transaction handle t
OpOn(t) ==
  \/ NewTx(t)
  \/ \E root \in RootInputs : NewTxAt(t, root)
  \/ \E key \in Keys : \E value \in Values : TxInsert(t, key, value)
  \/ \E key \in Keys : TxRemove(t, key)
  \/ \E root \in RootInputs : TxRevert(t, root)
  \/ \E io \in IoOutcomes : TxCommit(t, io)
  \/ TxDrop(t)

\* C1: Isolation. Whatever one Transaction does (insert, remove, revert,
\* commit, drop, or being created), every other open Transaction stays open
\* and shows exactly the same get/has results as before; and when a commit
\* succeeds, a Transaction newly created on the published root shows the
\* committing Transaction's mapping.
C1_Isolation ==
  [][\A t \in TxIds :
       /\ (\E u \in TxIds \ {t} :
             /\ Alive(u)
             /\ txs[u]' # txs[u] \/ tree' # tree
             /\ ~ /\ Alive(u)'
                  /\ View(tree, txs[u])' = View(tree, txs[u])
                  /\ HasView(tree, txs[u])' = HasView(tree, txs[u]))
          => ~OpOn(t)
       /\ (vars' # vars /\ TxCommit(t, "ok")) =>
            /\ IsTx(Fresh(tree'))
            /\ View(tree', Fresh(tree')) = View(tree, txs[t])
     ]_vars

\* two Transactions opened on the same base root, each with a write of its
\* own; the first has committed, the second has not and does not show the
\* first one's key, while a new Transaction does
C1_Witness ==
  \E k1, k2 \in Keys :
    /\ k1 # k2
    /\ Alive(1) /\ Alive(2)
    /\ txs[1].overlay = EmptyOverlay /\ txs[1].base = tree.hash
    /\ txs[2].base = ZERO_HASH /\ tree.hash # ZERO_HASH
    /\ txs[2].overlay[k2].op = "set"
    /\ Transaction_has(tree, txs[1], k1, "ok") = Ok(TRUE)
    /\ Transaction_has(tree, txs[2], k1, "ok") = Ok(FALSE)
    /\ Transaction_has(tree, txs[1], k2, "ok") = Ok(FALSE)
    /\ Transaction_has(tree, Fresh(tree), k1, "ok") = Ok(TRUE)

\* values a caller may pass, beyond the ones the runs store: empty, and of
\* exactly the maximum size
Fill(n) == [i \in 1..n |-> 7]
ValueInputs == Values \cup {<<>>, Fill(MAX_VALUE_SIZE)}

\* C2: Round-trip. In every reachable state and for every open Transaction,
\* key and value of at most MAX_VALUE_SIZE bytes: if insert(k, v) and then
\* commit() succeed, a Transaction newly created at the new root (by new_tx
\* and by new_tx_at of the published root) returns get(k) = Some(v) and
\* has(k) = true.
C2_RoundTrip ==
  \A t \in TxIds : Alive(t) =>
    \A k \in Keys : \A v \in ValueInputs :
      LET i == Transaction_insert(txs[t], k, v)
          c == Transaction_commit(tree, i.tx, "ok")
          f == Database_new_tx_at(c.tree, Database_root(c.tree))
          g == Database_new_tx(c.tree)
      IN (Len(v) <= MAX_VALUE_SIZE /\ i.res.ok /\ c.res.ok) =>
           /\ f.res.ok /\ g.res.ok
           /\ Transaction_get(c.tree, f.tx, k, "ok") = Ok(Some(v))
           /\ Transaction_has(c.tree, f.tx, k, "ok") = Ok(TRUE)
           /\ Transaction_get(c.tree, g.tx, k, "ok") = Ok(Some(v))
           /\ Transaction_has(c.tree, g.tx, k, "ok") = Ok(TRUE)

\* an insert of the two-byte value was committed, and a new Transaction on
\* the published root reads it back, while the committing one was dropped
C2_Witness ==
  /\ \A t \in TxIds : ~Alive(t)
  /\ tree.hash # ZERO_HASH
  /\ \E k \in Keys :
       /\ Transaction_get(tree, Fresh(tree), k, "ok") = Ok(Some(<<2, 2>>))
       /\ Transaction_has(tree, Fresh(tree), k, "ok") = Ok(TRUE)

\* C3: No effect without commit. A step of insert, remove or drop on a
\* Transaction leaves Database::root, the mapping of every root the store
\* knows, the mapping a newly created Transaction shows and the mapping of
\* every other open Transaction unchanged.
Published(tr) ==
  [root |-> Database_root(tr),
   fresh |-> View(tr, Fresh(tr)),
   known |-> [r \in {ZERO_HASH} \cup tr.roots |-> View(tr, FreshAt(tr, r))]]

C4_CommitAllOrNothing ==
  \A t \in TxIds : Alive(t) =>
    LET c == Transaction_commit(tree, txs[t], "fail")
        again == Transaction_commit(c.tree, c.tx, "ok")
    IN /\ ~c.res.ok
       /\ Published(c.tree) = Published(tree)
       /\ \A r \in RootInputs \cup {Transaction_root(tree, txs[t])} :
            Database_new_tx_at(c.tree, r).res = Database_new_tx_at(tree, r).res
       /\ IsTx(c.tx)
       /\ c.tx.overlay = txs[t].overlay
       /\ View(c.tree, c.tx) = View(tree, txs[t])
       /\ Transaction_root(c.tree, c.tx) = Transaction_root(tree, txs[t])
       /\ again.res.ok
       /\ Database_root(again.tree) = Transaction_root(tree, txs[t])
       /\ Transaction_revert(c.tree, c.tx, Database_root(c.tree)).res.ok

\* a commit failed partway: the tree of an open Transaction with pending
\* writes is in the node log but its root was not published
C4_Witness ==
  \E t \in TxIds :
    /\ Alive(t)
    /\ txs[t].overlay # EmptyOverlay
    /\ Transaction_root(tree, txs[t]) \in DOMAIN tree.nodes
    /\ Transaction_root(tree, txs[t]) \notin tree.roots
    /\ Database_new_tx_at(tree, Transaction_root(tree, txs[t])).res = Err(NotFound)

\* C5: Historical roots stay valid. In every reachable state, whatever
\* Transaction commits next (with or without a storage failure), every root
\* the store knows is still known, new_tx_at of it still succeeds and shows
\* the same mapping as before; and the root a successful commit publishes
\* shows the mapping of the committing Transaction.
C5_HistoricalRoots ==
  \A t \in TxIds : Alive(t) =>
    \A io \in IoOutcomes :
      LET c == Transaction_commit(tree, txs[t], io)
      IN /\ \A r \in KnownRoots :
              /\ Database_new_tx_at(tree, r).res.ok
              /\ Database_new_tx_at(c.tree, r).res.ok
              /\ View(c.tree, FreshAt(c.tree, r)) = View(tree, FreshAt(tree, r))
              /\ HasView(c.tree, FreshAt(c.tree, r)) = HasView(tree, FreshAt(tree, r))
         /\ c.res.ok =>
              /\ Database_new_tx_at(c.tree, Transaction_root(tree, txs[t])).res.ok
              /\ View(c.tree, FreshAt(c.tree, Transaction_root(tree, txs[t])))
                   = View(tree, txs[t])

\* two roots were published one after the other; the older one still opens
\* and shows a mapping different from the published one
C5_Witness ==
  \E r \in tree.roots :
    /\ Cardinality(tree.roots) = MaxRoots
    /\ r # Database_root(tree)
    /\ Database_new_tx_at(tree, r).res.ok
    /\ View(tree, FreshAt(tree, r)) # View(tree, Fresh(tree))
    /\ \E k \in Keys : Transaction_has(tree, FreshAt(tree, r), k, "ok") = Ok(TRUE)

\* C6: Root determinism. Among the roots of the open Transactions and the
\* roots the store knows, two roots are equal exactly when the key -> value
\* mappings behind them are equal.
Snapshots ==
  {[root |-> Transaction_root(tree, txs[t]), view |-> View(tree, txs[t])] :
     t \in {u \in TxIds : Alive(u)}}
  \cup {[root |-> r, view |-> View(tree, FreshAt(tree, r))] : r \in KnownRoots}

UseOf(t) ==
  \/ \E key \in Keys : \E value \in Values : TxInsert(t, key, value)
  \/ \E key \in Keys : TxRemove(t, key)
  \/ \E key \in Keys : TxHas(t, key)
  \/ \E key \in Keys : TxGet(t, key)
  \/ TxRoot(t)
  \/ \E root \in RootInputs : TxRevert(t, root)
  \/ \E io \in IoOutcomes : TxCommit(t, io)
  \/ TxDrop(t)

C8_UsableAfterCommit ==
  \A t \in TxIds : Alive(t) =>
    LET c == Transaction_commit(tree, txs[t], "ok")
    IN c.res.ok =>
         /\ IsTx(c.tx)
         /\ \A k \in Keys :
              txs[t].overlay[k].op = "set" =>
                /\ Transaction_has(c.tree, c.tx, k, "ok") = Ok(TRUE)
                /\ Transaction_get(c.tree, c.tx, k, "ok")
                     = Ok(Some(txs[t].overlay[k].value))
         /\ View(c.tree, c.tx) = View(tree, txs[t])
         /\ HasView(c.tree, c.tx) = HasView(tree, txs[t])
         /\ Transaction_root(c.tree, c.tx) = Transaction_root(tree, txs[t])
         /\ Transaction_root(c.tree, c.tx) = Database_root(c.tree)

\* an open Transaction on an older root with a pending insert, next to a
\* Transaction that has just committed and still shows its key
C8_Witness ==
  \E t, u \in TxIds : \E k1 \in Keys :
    /\ t # u /\ Alive(t) /\ Alive(u)
    /\ txs[t].overlay[k1].op = "set"
    /\ txs[t].base \in tree.roots
    /\ txs[t].base # Database_root(tree)
    /\ txs[u].overlay = EmptyOverlay
    /\ txs[u].base = Database_root(tree)
    /\ \E k \in Keys : Transaction_has(tree, txs[u], k, "ok") = Ok(TRUE)

\* C9: Revert is a full reset. In every reachable state, for every open
\* Transaction and every root R the store knows: revert(R) succeeds, leaves
\* no pending insert or remove, and get/has of every key and root() are then
\* those of a Transaction newly created at R, whatever the overlay and base
\* were; the store is not written.
C9_RevertIsFullReset ==
  \A t \in TxIds : Alive(t) =>
    \A R \in KnownRoots :
      LET r == Transaction_revert(tree, txs[t], R)
      IN /\ r.res = Ok(Unit)
         /\ r.tx.overlay = EmptyOverlay
         /\ View(tree, r.tx) = View(tree, FreshAt(tree, R))
         /\ HasView(tree, r.tx) = HasView(tree, FreshAt(tree, R))
         /\ Transaction_root(tree, r.tx) = R
         /\ ~ENABLED (TxRevert(t, R) /\ tree' # tree)

\* an open Transaction with a pending insert and a pending remove, based on
\* a published root, while another root the store knows shows another mapping
C9_Witness ==
  \E t \in TxIds : \E R \in KnownRoots : \E k1, k2 \in Keys :
    /\ Alive(t)
    /\ txs[t].overlay[k1].op = "set"
    /\ txs[t].overlay[k2].op = "remove"
    /\ txs[t].base \in tree.roots
    /\ txs[t].base # R
    /\ View(tree, txs[t]) # View(tree, FreshAt(tree, R))
    /\ Transaction_revert(tree, txs[t], R).res.ok

\* C10: Unknown roots are rejected. In every reachable state and for every
\* root a caller may hold that is neither the empty root nor published by a
\* commit (garbage, the root of a tree a failed commit wrote, the root of a
\* Transaction's pending mapping): new_tx_at fails with NotFound and yields no
\* Transaction, revert fails with NotFound on every open Transaction and
\* leaves it as it was, and neither call changes the store.
C10_UnknownRootRejected ==
  \A R \in RootInputs \ KnownRoots :
    /\ Database_new_tx_at(tree, R) = [res |-> Err(NotFound), tx |-> NULL]
    /\ \A t \in TxIds :
         /\ ~ENABLED (NewTxAt(t, R) /\ vars' # vars)
         /\ Alive(t) =>
              /\ Transaction_revert(tree, txs[t], R)
                   = [res |-> Err(NotFound), tx |-> txs[t]]
              /\ ~ENABLED (TxRevert(t, R) /\ vars' # vars)

\* the store has published a root and also holds the tree of a failed
\* commit; an open Transaction with pending writes is refused a revert to
\* that unpublished root, and a free handle is refused a Transaction at it
C10_Witness ==
  \E t, u \in TxIds : \E R \in DOMAIN tree.nodes :
    /\ R \notin tree.roots
    /\ tree.roots # {}
    /\ Alive(t) /\ ~Alive(u)
    /\ txs[t].overlay # EmptyOverlay
    /\ Transaction_root(tree, txs[t]) # R
    /\ Transaction_revert(tree, txs[t], R).res = Err(NotFound)
    /\ Database_new_tx_at(tree, R).res = Err(NotFound)
    /\ Database_new_tx_at(tree, BOGUS_ROOT).res = Err(NotFound)

\* values over the size bound: one byte too long, and twice the bound
TooLarge == {Fill(MAX_VALUE_SIZE + 1), Fill(2 * MAX_VALUE_SIZE)}

\* C11: Size guard. In every reachable state, for every open Transaction and
\* every key: insert of a value longer than MAX_VALUE_SIZE returns
\* Err(ValueTooLarge), leaves the Transaction as it was (same get/has of
\* every key, same root()) and changes nothing else; insert of a value of
\* exactly MAX_VALUE_SIZE bytes does not return Err(ValueTooLarge).
C11_SizeGuard ==
  \A t \in TxIds : Alive(t) =>
    \A k \in Keys :
      /\ \A v \in TooLarge :
           LET i == Transaction_insert(txs[t], k, v)
           IN /\ i.res = Err(ValueTooLarge)
              /\ i.tx = txs[t]
              /\ View(tree, i.tx) = View(tree, txs[t])
              /\ HasView(tree, i.tx) = HasView(tree, txs[t])
              /\ Transaction_root(tree, i.tx) = Transaction_root(tree, txs[t])
              /\ ~ENABLED (TxInsert(t, k, v) /\ vars' # vars)
      /\ Transaction_insert(txs[t], k, Fill(MAX_VALUE_SIZE)).res # Err(ValueTooLarge)

\* a Transaction on a published root with a pending insert and a pending
\* remove is handed a value of 1025 bytes
C11_Witness ==
  \E t \in TxIds : \E k1, k2 \in Keys :
    /\ Alive(t)
    /\ txs[t].base \in tree.roots
    /\ txs[t].overlay[k1].op = "set"
    /\ txs[t].overlay[k2].op = "remove"
    /\ Transaction_insert(txs[t], k1, Fill(MAX_VALUE_SIZE + 1)).res = Err(ValueTooLarge)

\* C12: Remove. In every reachable state, for every open Transaction and
\* key: remove(k) returns Err(NotFound) exactly when k is absent from the
\* Transaction's view, and then leaves the Transaction as it was; when k is
\* present (from the base root or from a pending insert) remove(k) returns
\* Ok, has(k) is then false and get(k) None, and has/get of every other key
\* are as before.
C12_Remove ==
  \A t \in TxIds : Alive(t) =>
    \A k \in Keys :
      LET present == Transaction_has(tree, txs[t], k, "ok") = Ok(TRUE)
          r == Transaction_remove(tree, txs[t], k)
      IN /\ (r.res = Err(NotFound)) <=> ~present
         /\ ~present =>
              /\ r.tx = txs[t]
              /\ View(tree, r.tx) = View(tree, txs[t])
              /\ HasView(tree, r.tx) = HasView(tree, txs[t])
         /\ present =>
              /\ r.res = Ok(Unit)
              /\ Transaction_has(tree, r.tx, k, "ok") = Ok(FALSE)
              /\ Transaction_get(tree, r.tx, k, "ok") = Ok(None)
              /\ \A j \in Keys \ {k} :
                   /\ View(tree, r.tx)[j] = View(tree, txs[t])[j]
                   /\ HasView(tree, r.tx)[j] = HasView(tree, txs[t])[j]

\* a Transaction in which one key is present from the base root, another
\* from a pending insert, and the third is absent
C12_Witness ==
  \E t \in TxIds : \E k1, k2, k3 \in Keys :
    /\ Alive(t)
    /\ txs[t].overlay[k1].op = "none"
    /\ Transaction_has(tree, txs[t], k1, "ok") = Ok(TRUE)
    /\ txs[t].overlay[k2].op = "set"
    /\ Transaction_has(tree, FreshAt(tree, txs[t].base), k2, "ok") = Ok(FALSE)
    /\ Transaction_remove(tree, txs[t], k3).res = Err(NotFound)
    /\ Transaction_remove(tree, txs[t], k1).res = Ok(Unit)

\* C13: Read-your-writes. In every reachable state, for every open
\* Transaction: has(k) is true exactly when get(k) is Some; a key with no
\* pending operation reads as in the base root; after insert(k, v), get(k)
\* is Some(v) and has(k) true before any commit, whatever the base root
\* maps k to, and the other keys read as before; a later insert(k, v2)
\* makes get(k) Some(v2).
C13_ReadYourWrites ==
  \A t \in TxIds : Alive(t) =>
    \A k \in Keys :
      /\ (Transaction_has(tree, txs[t], k, "ok") = Ok(TRUE))
           <=> (Transaction_get(tree, txs[t], k, "ok") \notin {Ok(None), Err(Unknown)})
      /\ Transaction_has(tree, txs[t], k, "ok") \in {Ok(TRUE), Ok(FALSE)}
      /\ txs[t].overlay[k].op = "none" =>
           View(tree, txs[t])[k] = View(tree, FreshAt(tree, txs[t].base))[k]
      /\ \A v, v2 \in Values :
           LET i == Transaction_insert(txs[t], k, v)
               i2 == Transaction_insert(i.tx, k, v2)
           IN /\ i.res.ok /\ i2.res.ok
              /\ Transaction_get(tree, i.tx, k, "ok") = Ok(Some(v))
              /\ Transaction_has(tree, i.tx, k, "ok") = Ok(TRUE)
              /\ \A j \in Keys \ {k} : View(tree, i.tx)[j] = View(tree, txs[t])[j]
              /\ Transaction_get(tree, i2.tx, k, "ok") = Ok(Some(v2))

\* the base root maps a key to one value, the Transaction has a pending
\* insert of another value for it and reads that one, while a key it did
\* not touch reads as in the base root
C13_Witness ==
  \E t \in TxIds : \E k, j \in Keys :
    /\ Alive(t)
    /\ Transaction_get(tree, FreshAt(tree, txs[t].base), k, "ok") = Ok(Some(<<1>>))
    /\ txs[t].overlay[k] = SetOp(<<2, 2>>)
    /\ Transaction_get(tree, txs[t], k, "ok") = Ok(Some(<<2, 2>>))
    /\ txs[t].overlay[j].op = "none"
    /\ Transaction_has(tree, txs[t], j, "ok") = Ok(TRUE)

C15_CommitsSerialized ==
  [][/\ Cardinality({t \in TxIds : commits[t]' # Idle}) <= 1
     /\ tree.roots \subseteq tree.roots'
     /\ Database_root(tree)' # Database_root(tree) => \E t \in TxIds : CommitPublish(t)
     /\ \A t \in TxIds :
          (commits[t].pc = "written" /\ CommitPublish(t)) =>
            LET c == Transaction_commit(tree, txs[t], "ok")
            IN /\ c.res = Ok(Unit)
               /\ tree' = c.tree
               /\ txs[t]' = c.tx
               /\ Database_root(tree)' = Transaction_root(tree, txs[t])
               /\ Database_new_tx_at(tree', Database_root(tree)').res = Ok(Unit)
    ]_vars

\* two Transactions opened on the empty root each inserted a key of its own
\* and committed; both roots are known and open to new_tx_at, the published
\* one is the root of the second and does not hold the first one's key
C15_Witness ==
  \E k1, k2 \in Keys :
    /\ k1 # k2
    /\ Alive(1) /\ Alive(2)
    /\ \A t \in TxIds : commits[t] = Idle /\ txs[t].overlay = EmptyOverlay
    /\ tree.roots = {txs[1].base, txs[2].base}
    /\ Database_root(tree) = txs[2].base
    /\ \A k \in Keys : Transaction_has(tree, txs[1], k, "ok") = Ok(k = k1)
    /\ \A k \in Keys : Transaction_has(tree, txs[2], k, "ok") = Ok(k = k2)
    /\ Database_new_tx_at(tree, txs[1].base).res = Ok(Unit)
    /\ Database_new_tx_at(tree, txs[2].base).res = Ok(Unit)

\* the store as the callers find it after every Transaction is dropped, the
\* Database dropped and opened again at the same prefix
Reopened == Database_open(Database_drop(tree))

C17_EmptyRootIdentity ==
  /\ (tree.roots = {} /\ tree.meta = ZERO_HASH) =>
       /\ Database_root(tree) = [bytes |-> [i \in 1..32 |-> 0]]
       /\ Database_new_tx(tree).res = Ok(Unit)
       /\ Transaction_root(tree, Fresh(tree)) = [bytes |-> [i \in 1..32 |-> 0]]
       /\ Database_root(Reopened.tree) = [bytes |-> [i \in 1..32 |-> 0]]
  /\ Database_root(urkel_open) = [bytes |-> [i \in 1..32 |-> 0]]
  /\ Transaction_root(urkel_open, Fresh(urkel_open)) = [bytes |-> [i \in 1..32 |-> 0]]
  /\ \A t \in TxIds :
       (Alive(t) /\ txs[t].overlay = EmptyOverlay) =>
         Transaction_root(tree, txs[t]) = txs[t].base
  /\ \A R \in KnownRoots : Transaction_root(tree, FreshAt(tree, R)) = R

\* a never-committed store on which writes were made and a commit failed,
\* with a brand-new Transaction open next to one with a pending write
C17_Witness ==
  \E t, u \in TxIds :
    /\ tree.roots = {}
    /\ DOMAIN tree.nodes # {}
    /\ Alive(t) /\ txs[t].overlay = EmptyOverlay
    /\ Alive(u) /\ txs[u].overlay # EmptyOverlay
    /\ Transaction_root(tree, txs[t]) = ZERO_HASH
    /\ Transaction_root(tree, txs[u]) # ZERO_HASH
    /\ Database_root(tree) = ZERO_HASH

ProofType(proof) == proof.raw[1]
ProofSiblings(proof) == proof.raw[3]

\* C19: Inclusion proofs verify.  For every open Transaction and every key
\* its get reports a value v for, the Proof from Transaction::prove verifies
\* against the Transaction's root to Ok(Some(v)), pending inserts included;
\* for every root R the store recognises and every key with a value v under
\* R, the Proof from Database::prove(k, R) verifies against R to Ok(Some(v)).
C19_InclusionProofsVerify ==
  /\ \A t \in TxIds : Alive(t) =>
       \A k \in Keys :
         LET got == Transaction_get(tree, txs[t], k, "ok")
             p == Transaction_prove(tree, txs[t], k)
         IN (got.ok /\ got.val # None) =>
              /\ p.ok
              /\ Proof_verify(p.val, k, Transaction_root(tree, txs[t])) = Ok(got.val)
  /\ \A R \in KnownRoots : \A k \in Keys :
       LET got == Transaction_get(tree, FreshAt(tree, R), k, "ok")
           p == Database_prove(tree, k, R)
       IN (got.ok /\ got.val # None) =>
            /\ p.ok
            /\ Proof_verify(p.val, k, R) = Ok(got.val)

\* a Transaction proves a key it inserted and has not committed, below an
\* internal node, while the store proves a key under a published root
C19_Witness ==
  /\ \E t \in TxIds : \E k \in Keys : \E v \in Values :
       /\ Alive(t)
       /\ txs[t].overlay[k] = SetOp(v)
       /\ LET p == Transaction_prove(tree, txs[t], k)
          IN /\ p.ok
             /\ ProofType(p.val) = URKEL_TYPE_EXISTS
             /\ ProofSiblings(p.val) >= 1
             /\ Proof_verify(p.val, k, Transaction_root(tree, txs[t])) = Ok(Some(v))
  /\ \E R \in tree.roots : \E k \in Keys : \E v \in Values :
       LET p == Database_prove(tree, k, R)
       IN /\ p.ok
          /\ ProofSiblings(p.val) >= 1
          /\ Proof_verify(p.val, k, R) = Ok(Some(v))

\* ------------------------------------------------------------------ C20
\* C20: Exclusion proofs verify.  For every open Transaction and every key
\* its get reports no value for, the Proof from Transaction::prove verifies
\* against the Transaction's root to Ok(None); for every root R the store
\* recognises and every key without a value under R, the Proof from
\* Database::prove(k, R) verifies against R to Ok(None).  The walk may end in
\* the empty tree, at an empty node below internal nodes, or at a leaf that
\* holds another key.
C20_ExclusionProofsVerify ==
  /\ \A t \in TxIds : Alive(t) =>
       \A k \in Keys :
         LET got == Transaction_get(tree, txs[t], k, "ok")
             p == Transaction_prove(tree, txs[t], k)
         IN got = Ok(None) =>
              /\ p.ok
              /\ ProofType(p.val) \in {URKEL_TYPE_DEADEND, URKEL_TYPE_COLLISION}
              /\ Proof_verify(p.val, k, Transaction_root(tree, txs[t])) = Ok(None)
  /\ \A R \in KnownRoots : \A k \in Keys :
       LET got == Transaction_get(tree, FreshAt(tree, R), k, "ok")
           p == Database_prove(tree, k, R)
       IN got = Ok(None) =>
            /\ p.ok
            /\ ProofType(p.val) \in {URKEL_TYPE_DEADEND, URKEL_TYPE_COLLISION}
            /\ Proof_verify(p.val, k, R) = Ok(None)

\* the three ways a walk misses a key, each verified: the empty tree, an
\* empty node below an internal node and a leaf with another key under
\* published roots; and a Transaction proving a key it removed
C20_Witness ==
  /\ \E k \in Keys :
       LET p == Database_prove(tree, k, ZERO_HASH)
       IN /\ p.ok
          /\ ProofType(p.val) = URKEL_TYPE_DEADEND
          /\ ProofSiblings(p.val) = 0
          /\ Proof_verify(p.val, k, ZERO_HASH) = Ok(None)
  /\ \E R \in tree.roots : \E k \in Keys :
       LET p == Database_prove(tree, k, R)
       IN /\ p.ok
          /\ ProofType(p.val) = URKEL_TYPE_DEADEND
          /\ ProofSiblings(p.val) >= 1
          /\ Proof_verify(p.val, k, R) = Ok(None)
  /\ \E R \in tree.roots : \E k \in Keys :
       LET p == Database_prove(tree, k, R)
       IN /\ p.ok
          /\ ProofType(p.val) = URKEL_TYPE_COLLISION
          /\ Proof_verify(p.val, k, R) = Ok(None)
  /\ \E t \in TxIds : \E k \in Keys :
       /\ Alive(t)
       /\ txs[t].overlay[k] = RemoveOp
       /\ LET p == Transaction_prove(tree, txs[t], k)
          IN /\ p.ok
             /\ Transaction_root(tree, txs[t]) # ZERO_HASH
             /\ Proof_verify(p.val, k, Transaction_root(tree, txs[t])) = Ok(None)

\* ------------------------------------------------------------------ C21
\* the proofs a caller can hold in this state, each with the key and the
\* root it was produced for and what get shows under that root: from Database::prove under a recognised root,
\* and from Transaction::prove under the Transaction's root
ProofsHeld ==
  {[proof |-> Database_prove(tree, k, R).val, key |-> k, root |-> R,
    view |-> View(tree, FreshAt(tree, R))] :
     k \in Keys, R \in KnownRoots}
  \cup
  {[proof |-> Transaction_prove(tree, txs[t], k).val, key |-> k,
    root |-> Transaction_root(tree, txs[t]), view |-> View(tree, txs[t])] :
     k \in Keys, t \in {u \in TxIds : Alive(u)}}

\* C21 as stated: a proof for key k under root R, verified with another key
\* or against another root, fails with HashMismatch.
C21_WrongKeyOrRootIsHashMismatch ==
  \A h \in ProofsHeld :
    /\ \A k2 \in Keys \ {h.key} :
         Proof_verify(h.proof, k2, h.root) = Err(HashMismatch)
    /\ \A R2 \in RootInputs \ {h.root} :
         Proof_verify(h.proof, h.key, R2) = Err(HashMismatch)

\* C21, amended: against another root every proof fails with HashMismatch;
\* an inclusion proof verified with another key fails with HashMismatch; an
\* exclusion proof verified with another key k2 fails with HashMismatch or
\* with SameKey (k2 is the key of the leaf the walk ended at), or verifies to
\* Ok(None) when the same walk also shows k2 absent, and then k2 has no
\* value under that root.  No such verification returns Ok(Some(_)).
C21_WrongKeyOrRoot ==
  \A h \in ProofsHeld :
    /\ \A R2 \in RootInputs \ {h.root} :
         Proof_verify(h.proof, h.key, R2) = Err(HashMismatch)
    /\ \A k2 \in Keys \ {h.key} :
         LET r == Proof_verify(h.proof, k2, h.root)
         IN IF ProofType(h.proof) = URKEL_TYPE_EXISTS
            THEN r = Err(HashMismatch)
            ELSE /\ r \in {Err(HashMismatch), Err(SameKey), Ok(None)}
                 /\ r = Err(SameKey) =>
                      /\ ProofType(h.proof) = URKEL_TYPE_COLLISION
                      /\ h.view[k2] # Ok(None)
                 /\ r = Ok(None) => h.view[k2] = Ok(None)

\* an inclusion proof below an internal node rejected for another key and for
\* another published root, an exclusion proof rejected with SameKey, and an
\* exclusion proof that also excludes another key
C21_Witness ==
  /\ \E h \in ProofsHeld : \E k2 \in Keys \ {h.key} : \E R2 \in tree.roots \ {h.root} :
       /\ ProofType(h.proof) = URKEL_TYPE_EXISTS
       /\ ProofSiblings(h.proof) >= 1
       /\ Proof_verify(h.proof, k2, h.root) = Err(HashMismatch)
       /\ Proof_verify(h.proof, h.key, R2) = Err(HashMismatch)
  /\ \E h \in ProofsHeld : \E k2 \in Keys \ {h.key} :
       /\ h.root \in tree.roots
       /\ Proof_verify(h.proof, k2, h.root) = Err(SameKey)
  /\ \E h \in ProofsHeld : \E k2 \in Keys \ {h.key} :
       /\ h.root \in tree.roots
       /\ Proof_verify(h.proof, k2, h.root) = Ok(None)

\* ------------------------------------------------------------------ C22
\* buffers that are no proof: nothing, the bytes of "bogus", and a proof cut
\* short, extended, or with an unknown type in front
Bogus == <<98, 111, 103, 117, 115>>
Undecodable(raw) ==
  {<<>>, Bogus, SubSeq(raw, 1, Len(raw) - 1), Append(raw, 0),
   [raw EXCEPT ![1] = 7]}

\* buffers that decode but were altered: the depth moved by one, the first
\* sibling hash replaced
Tampered(raw) ==
  (IF raw[2] < KeyBits THEN {[raw EXCEPT ![2] = @ + 1]} ELSE {})
    \cup (IF raw[2] >= 1
          THEN {[raw EXCEPT ![2] = @ - 1], [raw EXCEPT ![4] = BOGUS_ROOT]}
          ELSE {})

\* the proofs a caller can hold, each with the key and root it was made for
ProofsIssued ==
  {[proof |-> Database_prove(tree, k, R).val, key |-> k, root |-> R] :
     k \in Keys, R \in KnownRoots}
  \cup
  {[proof |-> Transaction_prove(tree, txs[t], k).val, key |-> k,
    root |-> Transaction_root(tree, txs[t])] :
     k \in Keys, t \in {u \in TxIds : Alive(u)}}

VerifyErrors ==
  {HashMismatch, SameKey, SamePath, NegativeDepth, PathMismatch, TooDeep,
   InvalidProof}

\* C22: Garbage proofs are never a negative result.  A buffer that does not
\* decode fails with InvalidProof for every key and root.  For every buffer,
\* decodable or not, genuine or altered: when the native verification fails,
\* verify returns an Err of the VerifyError taxonomy, never Ok(None) or
\* Ok(Some(_)); and verify returns Ok(None) only if the buffer decodes to a
\* proof whose replay with the queried key gives the expected root.
C22_GarbageIsNeverNegative ==
  \A h \in ProofsIssued :
    \A key \in Keys : \A root \in {h.root, BOGUS_ROOT} :
      /\ \A raw \in Undecodable(h.proof.raw) \cup Tampered(h.proof.raw)
                      \cup {h.proof.raw} :
           LET r == Proof_verify(Proof_new_unchecked(raw), key, root)
               n == urkel_verify(raw, Len(raw), key, root)
               rd == urkel_proof_read(raw, Len(raw))
           IN /\ raw \in Undecodable(h.proof.raw) => r = Err(InvalidProof)
              /\ ~rd.ok => r = Err(InvalidProof)
              /\ n.ret = 0 => ~r.ok /\ r.err \in VerifyErrors
              /\ r.ok => n.ret = 1
              /\ r = Ok(None) =>
                   /\ rd.ok
                   /\ rd.proof.type # URKEL_TYPE_EXISTS
                   /\ urkel_proof_replay(rd.proof.nodes, Len(rd.proof.nodes),
                                         rd.proof.depth, key,
                                         urkel_proof_leaf(rd.proof, key))
                        = [errno |-> URKEL_OK, depth |-> 0, hash |-> root]

\* a proof below an internal node under a published root: cut short it is
\* InvalidProof, with its depth moved it fails with NegativeDepth and with
\* TooDeep, with a sibling hash replaced with HashMismatch, and untouched it
\* verifies; and an exclusion proof that verifies to Ok(None)
C22_Witness ==
  /\ \E h \in ProofsIssued :
       LET raw == h.proof.raw
       IN /\ h.root \in tree.roots
          /\ ProofSiblings(h.proof) = 1
          /\ Proof_verify(Proof_new_unchecked(SubSeq(raw, 1, Len(raw) - 1)),
                          h.key, h.root) = Err(InvalidProof)
          /\ Proof_verify(Proof_new_unchecked(Bogus), h.key, h.root) = Err(InvalidProof)
          /\ Proof_verify(Proof_new_unchecked([raw EXCEPT ![2] = 0]),
                          h.key, h.root) = Err(NegativeDepth)
          /\ Proof_verify(Proof_new_unchecked([raw EXCEPT ![2] = 2]),
                          h.key, h.root) = Err(TooDeep)
          /\ Proof_verify(Proof_new_unchecked([raw EXCEPT ![4] = BOGUS_ROOT]),
                          h.key, h.root) = Err(HashMismatch)
          /\ Proof_verify(h.proof, h.key, h.root).ok
  /\ \E h \in ProofsIssued :
       /\ h.root \in tree.roots
       /\ ProofType(h.proof) = URKEL_TYPE_COLLISION
       /\ Proof_verify(h.proof, h.key, h.root) = Ok(None)

\* ------------------------------------------------------------------ C23
\* trie-bit order of keys: at the first bit where two keys differ, the key
\* with 0 comes first
KeyLess(a, b) ==
  \E i \in 1..KeyBits : a[i] < b[i] /\ \A j \in 1..(i - 1) : a[j] = b[j]

\* the pairs of a mapping in trie-bit order of their keys
RECURSIVE PairsInOrder(_, _)
PairsInOrder(view, keys) ==
  IF keys = {} THEN <<>>
  ELSE LET k == CHOOSE x \in keys : \A y \in keys \ {x} : KeyLess(x, y)
       IN <<<<k, view[k].val[1]>>>> \o PairsInOrder(view, keys \ {k})

Present(view) == {k \in Keys : view[k] # Ok(None)}

\* every pair an Iter yields from where it stands, by calling next to the end
RECURSIVE Drain(_)
Drain(iter) ==
  LET r == Iter_next(iter)
  IN IF r.res.ok /\ r.res.val # None
     THEN <<r.res.val[1]>> \o Drain(r.iter)
     ELSE <<>>

\* the pairs an Iter has returned so far
RECURSIVE Yielded(_)
Yielded(out) ==
  IF out = <<>> THEN <<>>
  ELSE IF Head(out).ok /\ Head(out).val # None
       THEN <<Head(out).val[1]>> \o Yielded(Tail(out))
       ELSE Yielded(Tail(out))

\* C23: Iteration order.  What an Iter has returned, followed by what it
\* still yields, is the sequence of the pairs of its root in trie-bit order
\* of the keys (a function of the set of pairs, so the same for every order
\* of insertion); two Iters on the Database made at roots with the same
\* pairs yield the same sequence; and for an Iter made on a root of the
\* store the pairs of that root are still those it was made on, whatever has
\* been committed since.
C23_IterationOrder ==
  /\ \A i \in IterIds : IterAlive(i) =>
       LET it == iters[i]
       IN /\ Yielded(it.out) \o Drain(it.handle)
               = PairsInOrder(it.made, Present(it.made))
          /\ it.owner = 0 =>
               /\ it.made = View(tree, FreshAt(tree, it.at))
               /\ Drain(Database_iter(tree, it.at).iter)
                    = PairsInOrder(it.made, Present(it.made))
  /\ \A R1, R2 \in KnownRoots :
       View(tree, FreshAt(tree, R1)) = View(tree, FreshAt(tree, R2)) =>
         Drain(Database_iter(tree, R1).iter) = Drain(Database_iter(tree, R2).iter)

\* an Iter on a published root with two pairs has returned the first; since
\* it was made another root was committed and published
C23_Witness ==
  \E i \in IterIds :
    /\ IterAlive(i)
    /\ iters[i].owner = 0
    /\ iters[i].at \in tree.roots
    /\ iters[i].at # Database_root(tree)
    /\ Cardinality(Present(iters[i].made)) = 2
    /\ Len(Yielded(iters[i].out)) = 1
    /\ Len(Drain(iters[i].handle)) = 1
    /\ KeyLess(Yielded(iters[i].out)[1][1], Drain(iters[i].handle)[1][1])

C25_AbsentIsNotAFault ==
  /\ \A t \in TxIds : Alive(t) =>
       \A k \in Keys : \A io \in IoOutcomes :
         LET nh == urkel_tx_has(tree, txs[t], k, io)
             ng == urkel_tx_get(tree, txs[t], k, io)
             h == Transaction_has(tree, txs[t], k, io)
             g == Transaction_get(tree, txs[t], k, io)
             absent == urkel_tx_lookup(tree, txs[t], k) = None
         IN /\ (h = Ok(FALSE)) <=> (nh.ret # 1 /\ nh.errno = URKEL_ENOTFOUND)
            /\ (g = Ok(None)) <=> (ng.ret # 1 /\ ng.errno = URKEL_ENOTFOUND)
            /\ (h = Ok(FALSE)) <=> (io = "ok" /\ absent)
            /\ (g = Ok(None)) <=> (io = "ok" /\ absent)
            /\ (h = Ok(TRUE)) <=> (nh.ret = 1)
            /\ (g.ok /\ g # Ok(None)) <=> (ng.ret = 1)
            /\ (nh.ret # 1 /\ nh.errno # URKEL_ENOTFOUND) => h = Err(Unknown)
            /\ (ng.ret # 1 /\ ng.errno # URKEL_ENOTFOUND) => g = Err(Unknown)
            /\ io = "fail" => (h = Err(Unknown) /\ g = Err(Unknown))
  /\ \A t \in TxIds : Alive(t) =>
       /\ \A k \in Keys :
            LET n == urkel_tx_remove(tree, txs[t], k)
                r == Transaction_remove(tree, txs[t], k).res
            IN /\ r.ok <=> n.ret # 0
               /\ n.ret = 0 => r = Err(NotFound)
       /\ \A root \in RootInputs :
            LET n == urkel_tx_inject(tree, txs[t], root)
                r == Transaction_revert(tree, txs[t], root).res
            IN /\ r.ok <=> n.ret # 0
               /\ n.ret = 0 => r = Err(NotFound)
       /\ \A io \in IoOutcomes :
            LET n == urkel_tx_commit(tree, txs[t], io)
                r == Transaction_commit(tree, txs[t], io).res
            IN /\ r.ok <=> n.ret # 0
               /\ io = "fail" => r = Err(Unknown)
  /\ \A root \in RootInputs :
       /\ LET n == urkel_tx_create(tree, root)
              r == Database_new_tx_at(tree, root).res
          IN /\ r.ok <=> n.tx # NULL
             /\ n.tx = NULL => r = Err(NotFound)
       /\ \A k \in Keys :
            LET n == urkel_prove(tree, k, root)
                r == Database_prove(tree, k, root)
            IN /\ r.ok <=> n.ret # 0
               /\ n.ret = 0 => r = Err(NotFound)

\* a Transaction that removed a committed key and still shows another: has
\* and get tell present, absent and failed lookups apart
C25_Witness ==
  \E t \in TxIds : \E k1, k2 \in Keys :
    /\ Alive(t)
    /\ txs[t].base # ZERO_HASH
    /\ txs[t].overlay[k1] = RemoveOp
    /\ Transaction_has(tree, txs[t], k1, "ok") = Ok(FALSE)
    /\ Transaction_get(tree, txs[t], k1, "ok") = Ok(None)
    /\ Transaction_has(tree, txs[t], k1, "fail") = Err(Unknown)
    /\ Transaction_get(tree, txs[t], k1, "fail") = Err(Unknown)
    /\ Transaction_has(tree, txs[t], k2, "ok") = Ok(TRUE)
    /\ Transaction_get(tree, txs[t], k2, "ok").val # None
    /\ Transaction_get(tree, txs[t], k2, "fail") = Err(Unknown)
    /\ Transaction_remove(tree, txs[t], k1).res = Err(NotFound)

====
